---- MODULE Spec2Model ----
(***************************************************************************)
(* Model of dapper/mods/Lorenz96s/__init__.py: l96s_tay2_step, one step of *)
(* the strong order 2.0 Taylor scheme for the stochastic Lorenz-96 model.  *)
(*                                                                         *)
(* Numbers are binary floating-point values with a Prec-bit significand,   *)
(* rounded to nearest (ties to even) after every operation, as numpy's     *)
(* float64 is with 53 bits.  A value is a pair <<m, e>> standing for       *)
(* m * 2^e with 2^(Prec-1) <= |m| < 2^Prec; zero is <<0, 0>> and NaN is    *)
(* <<0, 1>>.  The exponent is unbounded (no overflow, no underflow).       *)
(***************************************************************************)
EXTENDS Integers, Sequences, FiniteSets, TLC

\* significand width of the modelled floating-point format
Prec == 8
\* largest system dimension len(x) explored
MaxN == 5
\* largest number of calls of l96s_tay2_step in one run
MaxCalls == 2

----------------------------------------------------------------------------
(* Floating-point arithmetic                                               *)

Pow2(n) == 2^n

Abs(v) == IF v < 0 THEN 0 - v ELSE v

NaN == <<0, 1>>
Zero == <<0, 0>>
IsNaN(f) == f = NaN

\* 2^(Prec-1) <= |m| < 2^Prec for the significand m of a non-zero float
MinSig == Pow2(Prec - 1)
MaxSig == Pow2(Prec)

\* the number of bits of q >= 1
BitLen(q) == CHOOSE k \in 1..31 : q < Pow2(k)

\* n / d (d > 0) rounded to the nearest integer, ties to the even one
DivRHE(n, d) ==
  LET q == n \div d
      r == n - q * d
  IN  IF 2 * r < d THEN q
      ELSE IF 2 * r > d THEN q + 1
      ELSE IF q % 2 = 0 THEN q ELSE q + 1

\* the float m * 2^e for MinSig <= |m| <= MaxSig
Pack(m, e) == IF Abs(m) = MaxSig THEN <<m \div 2, e + 1>> ELSE <<m, e>>

\* the float nearest to the exact rational (n / d) * 2^e, d > 0: the
\* quotient is brought to Prec bits by doubling d or n, then rounded once
NormQ(n, d, e) ==
  IF n = 0 THEN Zero
  ELSE IF Abs(n) \div d >= MinSig
  THEN LET up == BitLen(Abs(n) \div d) - Prec
       IN  Pack(DivRHE(n, d * Pow2(up)), e + up)
  ELSE LET dn == CHOOSE j \in 1..31 : Abs(n) * Pow2(j) >= MinSig * d
       IN  Pack(DivRHE(n * Pow2(dn), d), e - dn)

\* the float nearest to the rational n / d: how a literal is read
F(n, d) == NormQ(n, d, 0)

FNeg(a) == IF IsNaN(a) THEN NaN ELSE <<0 - a[1], a[2]>>

FMul(a, b) ==
  IF IsNaN(a) \/ IsNaN(b) THEN NaN
  ELSE NormQ(a[1] * b[1], 1, a[2] + b[2])

FDiv(a, b) ==
  IF IsNaN(a) \/ IsNaN(b) \/ b[1] = 0 THEN NaN
  ELSE IF b[1] < 0 THEN NormQ(0 - a[1], 0 - b[1], a[2] - b[2])
  ELSE NormQ(a[1], b[1], a[2] - b[2])

\* a + b: exact sum of the aligned significands, rounded once.  An addend
\* more than Prec + 2 binary places below the other cannot change it.
FAdd(a, b) ==
  IF IsNaN(a) \/ IsNaN(b) THEN NaN
  ELSE IF a[1] = 0 THEN b
  ELSE IF b[1] = 0 THEN a
  ELSE IF a[2] - b[2] > Prec + 2 THEN a
  ELSE IF b[2] - a[2] > Prec + 2 THEN b
  ELSE IF a[2] >= b[2] THEN NormQ(a[1] * Pow2(a[2] - b[2]) + b[1], 1, b[2])
  ELSE NormQ(b[1] * Pow2(b[2] - a[2]) + a[1], 1, a[2])

FSub(a, b) == FAdd(a, FNeg(b))

\* the float nearest to sqrt(n * 2^e), n > 0 and e even.  n is scaled by a
\* power of 4 into 2^(2 Prec) .. 2^(2 Prec + 2), so that the integer part r
\* of its root has Prec + 1 bits; an inexact root lies strictly between r
\* and r + 1 and rounds as r + 1/2 does.
SqrtQ(n, e) ==
  LET k == (BitLen(n) - 2 * Prec - 1) \div 2
      sc == IF k >= 0 THEN n \div Pow2(2 * k) ELSE n * Pow2(0 - 2 * k)
      lost == k > 0 /\ sc * Pow2(2 * k) # n
      r == CHOOSE c \in MaxSig..(2 * MaxSig - 1) : (c + 1) * (c + 1) > sc
  IN  IF r * r = sc /\ ~lost THEN NormQ(r, 1, e \div 2 + k)
      ELSE NormQ(2 * r + 1, 2, e \div 2 + k)

\* sqrt of the exact value n * 2^e (n >= 0)
SqrtExact(n, e) ==
  IF n = 0 THEN Zero
  ELSE IF e % 2 = 0 THEN SqrtQ(n, e) ELSE SqrtQ(2 * n, e - 1)

\* np.sqrt: NaN for a negative argument
FSqrt(a) ==
  IF IsNaN(a) \/ a[1] < 0 THEN NaN ELSE SqrtExact(a[1], a[2])

\* a ** 2
FSquare(a) == FMul(a, a)

\* a ** (-2)
FInvSquare(a) ==
  IF IsNaN(a) \/ a[1] = 0 THEN NaN ELSE NormQ(1, a[1] * a[1], 0 - 2 * a[2])

\* a ** 1.5 for a >= 0: the float nearest to sqrt(a^3)
FPow15(a) ==
  IF IsNaN(a) \/ a[1] < 0 THEN NaN
  ELSE SqrtExact(a[1] * a[1] * a[1], 3 * a[2])

FIsNeg(a) == ~IsNaN(a) /\ a[1] < 0
FIsPos(a) == ~IsNaN(a) /\ a[1] > 0

----------------------------------------------------------------------------
(* Vectors and matrices: a Python index l is position l + 1 of a sequence  *)

One == F(1, 1)
Two == F(2, 1)
Half == F(1, 2)

\* the sequence <<f[1], ..., f[n]>> of a function f on 1..n, every entry
\* evaluated once
Arr(f) == f \o <<>>

VAdd(u, v) == Arr([k \in 1..Len(u) |-> FAdd(u[k], v[k])])
VSub(u, v) == Arr([k \in 1..Len(u) |-> FSub(u[k], v[k])])
VScale(c, v) == Arr([k \in 1..Len(v) |-> FMul(c, v[k])])
VScaleR(v, c) == Arr([k \in 1..Len(v) |-> FMul(v[k], c)])
VDivR(v, c) == Arr([k \in 1..Len(v) |-> FDiv(v[k], c)])
MScale(c, M) == Arr([r \in 1..Len(M) |-> VScale(c, M[r])])

\* one row of M @ v: the products are accumulated in index order
RECURSIVE Dot(_, _, _)
Dot(row, v, n) ==
  IF n = 0 THEN Zero
  ELSE IF n = 1 THEN FMul(row[1], v[1])
  ELSE FAdd(Dot(row, v, n - 1), FMul(row[n], v[n]))

MatVec(M, v) == Arr([r \in 1..Len(M) |-> Dot(M[r], v, Len(v))])

----------------------------------------------------------------------------
(* The collaborators: dapper.mods.Lorenz96.dxdt and                        *)
(* dapper.mods.Lorenz96.extras.d2x_dtdx, pure functions of the state.      *)
(* "zero" is the stub field of the test scenarios (no drift, zero          *)
(* Jacobian); "ring" is a cyclically coupled quadratic field with forcing  *)
(* Force and its exact Jacobian.                                           *)

Force == F(8, 1)

Fields == {"zero", "ring"}

\* x[(i + k) mod n] for the Python index i
At(x, i, k) == x[((i + k) % Len(x)) + 1]

dxdt(fld, x) ==
  IF fld = "zero" THEN Arr([k \in 1..Len(x) |-> Zero])
  ELSE Arr([k \in 1..Len(x) |->
             FAdd(FSub(FMul(FSub(At(x, k - 1, 1), At(x, k - 1, -2)),
                            At(x, k - 1, -1)),
                       x[k]),
                  Force)])

\* entry (i, j) of the Jacobian: the sum of the partial derivatives of
\* (x[i+1] - x[i-2]) * x[i-1] - x[i] with respect to x[j]
JEntry(x, i, j) ==
  LET n == Len(x)
      t1 == IF j = (i + 1) % n THEN At(x, i, -1) ELSE Zero
      t2 == IF j = (i - 2) % n THEN FNeg(At(x, i, -1)) ELSE Zero
      t3 == IF j = (i - 1) % n THEN FSub(At(x, i, 1), At(x, i, -2)) ELSE Zero
      t4 == IF j = i THEN FNeg(One) ELSE Zero
  IN  FAdd(FAdd(FAdd(t1, t2), t3), t4)

d2x_dtdx(fld, x) ==
  IF fld = "zero"
  THEN Arr([r \in 1..Len(x) |-> Arr([c \in 1..Len(x) |-> Zero])])
  ELSE Arr([r \in 1..Len(x) |->
             Arr([c \in 1..Len(x) |-> JEntry(x, r - 1, c - 1)])])

----------------------------------------------------------------------------
(* The random source: numpy's global generator.  Its state is the seed it  *)
(* was last seeded with and the number of variates drawn since; variate k  *)
(* of a seed is a fixed value.  Seed 0 yields 1, 0, 0, 0, ... and every    *)
(* other seed a stream of values with full-width significands.             *)

Seeds == {0, 1}

StreamTable == <<141, -96, 53, 0, 203, -160, 77>>

Variate(seed, k) ==
  IF seed = 0 THEN (IF k = 0 THEN One ELSE Zero)
  ELSE F(StreamTable[((k * seed) % Len(StreamTable)) + 1], 128)

\* a draw that also depends on how often the generator was seeded
standard_normal_hidden(g, rows, cols) ==
  Arr([r \in 1..rows |->
        Arr([c \in 1..cols |->
              Variate(g.seed, g.pos + g.epoch + (r - 1) * cols + (c - 1))])])

\* a draw of one row of variates, used for each of the rows
standard_normal_one_row(g, rows, cols) ==
  Arr([r \in 1..rows |->
        Arr([c \in 1..cols |-> Variate(g.seed, g.pos + (c - 1))])])

\* a draw of shape [rows, cols + 1]
standard_normal_wide(g, rows, cols) ==
  Arr([r \in 1..rows |->
        Arr([c \in 1..(cols + 1) |->
              Variate(g.seed, g.pos + (r - 1) * (cols + 1) + (c - 1))])])

\* np.random.standard_normal([rows, cols]): rows * cols variates, drawn
\* in order and laid out row by row
standard_normal(g, rows, cols) ==
  Arr([r \in 1..rows |->
        Arr([c \in 1..cols |->
              Variate(g.seed, g.pos + (r - 1) * cols + (c - 1))])])

\* the generator after that draw
Advanced(g, rows, cols) == [g EXCEPT !.pos = g.pos + rows * cols]

----------------------------------------------------------------------------
(* l96s_tay2_step: the numeric pipeline, line by line                      *)

\* the float nearest to pi
Pi == F(355, 113)

rho == FSub(FDiv(One, F(12, 1)), FMul(Half, FInvSquare(Pi)))
alpha == FSub(FDiv(FSquare(Pi), F(180, 1)), FMul(Half, FInvSquare(Pi)))

\* a = -2.0 * np.sqrt(dt * rho) * mu - np.sqrt(2.0*dt) * zeta / np.pi
AuxA(dt, mu, zeta) ==
  VSub(VScale(FMul(FNeg(Two), FSqrt(FMul(dt, rho))), mu),
       VDivR(VScale(FSqrt(FMul(Two, dt)), zeta), Pi))

\* b = np.sqrt(dt * alpha) * phi + np.sqrt(dt / (2.0 * np.pi**2)) * eta
AuxB(dt, phi, eta) ==
  VAdd(VScale(FSqrt(FMul(dt, alpha)), phi),
       VScale(FSqrt(FDiv(dt, FMul(Two, FSquare(Pi)))), eta))

\* J_pdelta = (dt/2.0) * (np.sqrt(dt) * xi + a)
J_pdelta(dt, xi, a) ==
  VScale(FDiv(dt, Two), VAdd(VScale(FSqrt(dt), xi), a))

Psi(dt, xi, a, b, l1, l2) ==
  LET x1 == xi[l1 + 1]
      x2 == xi[l2 + 1]
      a1 == a[l1 + 1]
      a2 == a[l2 + 1]
      b1 == b[l1 + 1]
      b2 == b[l2 + 1]
      T1 == FDiv(FMul(FMul(FSquare(dt), x1), x2), F(3, 1))
      T2 == FDiv(FMul(FMul(dt, a1), a2), Two)
      T3 == FDiv(FMul(FPow15(dt), FAdd(FMul(x1, a2), FMul(x2, a1))), F(4, 1))
      T4 == FDiv(FMul(FPow15(dt), FAdd(FMul(x1, b2), FMul(x2, b1))),
                 FMul(Two, Pi))
  IN  FSub(FAdd(FAdd(T1, T2), T3), T4)

\* psi_plus fed the left neighbour twice
PlusArgsLeftTwice(i, n) == <<(i - 1) % n, (i - 1) % n>>
\* psi_plus with the left neighbour's index folded instead of wrapped
PlusArgsFolded(i, n) == <<Abs(i - 1) % n, (i + 1) % n>>
\* psi_minus fed the second left neighbour twice
MinusArgsLeftTwice(i, n) == <<(i - 2) % n, (i - 2) % n>>
\* psi_minus fed the right neighbour in place of the left one
MinusArgsForward(i, n) == <<(i - 2) % n, (i + 1) % n>>

\* the index pairs handed to Psi for coordinate i of a ring of n
PlusArgs(i, n) == <<(i - 1) % n, (i + 1) % n>>
MinusArgs(i, n) == <<(i - 2) % n, (i - 1) % n>>

psi_plus(dt, xi, a, b, n) ==
  Arr([k \in 1..n |->
        Psi(dt, xi, a, b, PlusArgs(k - 1, n)[1], PlusArgs(k - 1, n)[2])])

psi_minus(dt, xi, a, b, n) ==
  Arr([k \in 1..n |->
        Psi(dt, xi, a, b, MinusArgs(k - 1, n)[1], MinusArgs(k - 1, n)[2])])

\* x + dx * dt + dt**2 * 0.5 * dxF @ dx
TaylorStep(x, dx, dxF, dt) ==
  VAdd(VAdd(x, VScaleR(dx, dt)),
       MatVec(MScale(FMul(FSquare(dt), Half), dxF), dx))

\* line 106 without its factor s
EulerTermNoS(dt, s, xi) == VScale(FSqrt(dt), xi)

\* s * np.sqrt(dt) * xi
EulerTerm(dt, s, xi) == VScale(FMul(s, FSqrt(dt)), xi)

\* s * dxF @ J_pdelta
FirstOrderTerm(s, dxF, jp) == MatVec(MScale(s, dxF), jp)

\* s**2 * (psi_plus - psi_minus)
SecondOrderTerm(s, pp, pm) == VScale(FSquare(s), VSub(pp, pm))

\* line 105 written as x += ...: the caller's array is overwritten
RebindInPlace(m, v) == [heap |-> [m.heap EXCEPT ![m.x] = v], x |-> m.x]

\* the heap and the array the local name x refers to, after
\* x = <value>: a new array is allocated and x bound to it
Rebind(m, v) == [heap |-> Append(m.heap, v), x |-> Len(m.heap) + 1]

\* after x += v: the array x refers to is updated in place
IAdd(m, v) == [m EXCEPT !.heap[m.x] = VAdd(m.heap[m.x], v)]

\* lines 84 to 102: the vectors derived from the draw, and the index pairs
\* handed to Psi
Derived(n, rndm, dt, a, b) ==
  [a |-> a, b |-> b,
   J_pdelta |-> J_pdelta(dt, rndm[1], a),
   psi_plus |-> psi_plus(dt, rndm[1], a, b, n),
   psi_minus |-> psi_minus(dt, rndm[1], a, b, n),
   plus_args |-> Arr([k \in 1..n |-> PlusArgs(k - 1, n)]),
   minus_args |-> Arr([k \in 1..n |-> MinusArgs(k - 1, n)])]

Locals(n, rndm, dt) ==
  Derived(n, rndm, dt, AuxA(dt, rndm[2], rndm[4]), AuxB(dt, rndm[3], rndm[5]))

\* lines 105 to 108 on the memory m (the heap and the binding of x)
Line105(m, dx, dxF, dt) == Rebind(m, TaylorStep(m.heap[m.x], dx, dxF, dt))
Line106(m, dt, s, xi) == IAdd(m, EulerTerm(dt, s, xi))
Line107(m, s, dxF, jp) == IAdd(m, FirstOrderTerm(s, dxF, jp))
Line108(m, s, pp, pm) == IAdd(m, SecondOrderTerm(s, pp, pm))

\* the memory after the four lines, given the locals loc
Combine(m, dx, dxF, xi, dt, s, loc) ==
  Line108(Line107(Line106(Line105(m, dx, dxF, dt), dt, s, xi),
                  s, dxF, loc.J_pdelta),
          s, loc.psi_plus, loc.psi_minus)

\* what the body returns for the argument x, the collaborators' results
\* dx and dxF and the draw rndm: the array the name x refers to at line 110
Result(x, dx, dxF, rndm, dt, s) ==
  LET m == Combine([heap |-> <<x>>, x |-> 1], dx, dxF, rndm[1], dt, s,
                   Locals(Len(x), rndm, dt))
  IN  m.heap[m.x]

\* dt ** 1.5 of a negative Python float is a complex number: psi_plus and
\* psi_minus are then complex arrays and line 108 cannot add them into the
\* float array (numpy raises UFuncTypeError).  A negative np.float64 gives
\* NaN instead and nothing is raised.
Raises(dt, is_py) == is_py /\ FIsNeg(dt)

----------------------------------------------------------------------------
(* The state: the caller's side of a simulation and the calls it makes     *)

VARIABLES
  heap,      \* the arrays alive: heap[r] is the array with reference r
  cx,        \* the caller's state vector x (a reference)
  ret,       \* what the last call returned (a reference; 0: nothing yet)
  rng,       \* the random source: seed, variates drawn, reseed count
  t,         \* the caller's clock, handed to every call
  field,     \* which drift field dxdt and d2x_dtdx compute
  dt,        \* the step size the caller uses
  dt_is_py,  \* dt is a Python float (TRUE) or an np.float64 (FALSE)
  s,         \* the diffusion coefficient the caller uses
  calls,     \* every call so far: its arguments, the source before and
             \* after, how it ended and what it returned
  frame      \* the locals of the last call

vars == <<heap, cx, ret, rng, t, field, dt, dt_is_py, s, calls, frame>>

XTable == <<141, -148, 96, 203, -80, 77, 119>>

XKinds == {"ones", "generic"}

XInit(kind, n) ==
  IF kind = "ones" THEN Arr([k \in 1..n |-> One])
  ELSE Arr([k \in 1..n |-> F(XTable[((k - 1) % Len(XTable)) + 1], 128)])

DtSet == {F(-1, 4), Zero, F(1, 100), F(3, 4)}
SSet == {F(-1, 1), Zero, One}

NoFrame == [sys_dim |-> 0]

Init ==
  /\ \E n \in 1..MaxN, kind \in XKinds : heap = <<XInit(kind, n)>>
  /\ cx = 1
  /\ ret = 0
  /\ \E seed \in Seeds : rng = [seed |-> seed, pos |-> 0, epoch |-> 0]
  /\ t = Zero
  /\ field \in Fields
  /\ dt \in DtSet
  /\ dt_is_py \in (IF FIsNeg(dt) THEN BOOLEAN ELSE {TRUE})
  /\ s \in SSet
  /\ calls = <<>>
  /\ frame = NoFrame

\* x_next = l96s_tay2_step(x, t, dt, s): each \E binds a local of the body
\* to its value; the last one runs lines 105 to 108 on the heap
l96s_tay2_step ==
  /\ Len(calls) < MaxCalls
  /\ \E sys_dim \in {Len(heap[cx])} :
     \E dx \in {dxdt(field, heap[cx])} :
     \E dxF \in {d2x_dtdx(field, heap[cx])} :
     \E rndm \in {standard_normal(rng, 5, sys_dim)} :
     \E loc \in {Locals(sys_dim, rndm, dt)} :
     \E m \in {Combine([heap |-> heap, x |-> cx], dx, dxF, rndm[1], dt, s, loc)} :
       /\ rng' = Advanced(rng, 5, sys_dim)
       /\ frame' = [sys_dim |-> sys_dim, dx |-> dx, dxF |-> dxF,
                    rndm |-> rndm, loc |-> loc]
       /\ heap' = IF Raises(dt, dt_is_py) THEN heap ELSE m.heap
       /\ ret' = IF Raises(dt, dt_is_py) THEN ret ELSE m.x
       /\ calls' = Append(calls,
            [xref |-> cx, x |-> heap[cx], t |-> t, dt |-> dt, s |-> s,
             rng0 |-> rng, rng1 |-> rng',
             outcome |-> IF Raises(dt, dt_is_py) THEN "UFuncTypeError"
                         ELSE "returned",
             ref |-> IF Raises(dt, dt_is_py) THEN 0 ELSE m.x,
             out |-> IF Raises(dt, dt_is_py) THEN <<>> ELSE m.heap[m.x]])
  /\ UNCHANGED <<cx, t, field, dt, dt_is_py, s>>

\* the time loop: the returned state becomes the caller's x, the clock moves
Advance ==
  /\ ret # 0
  /\ ret # cx
  /\ cx' = ret
  /\ t' = FAdd(t, dt)
  /\ UNCHANGED <<heap, ret, rng, field, dt, dt_is_py, s, calls, frame>>

\* np.random.seed(seed): the source restarts its stream
Reseed ==
  /\ rng.pos > 0
  /\ rng' = [rng EXCEPT !.pos = 0, !.epoch = rng.epoch + 1]
  /\ UNCHANGED <<heap, cx, ret, t, field, dt, dt_is_py, s, calls, frame>>

Next == l96s_tay2_step \/ Advance \/ Reseed

Spec == Init /\ [][Next]_vars

----------------------------------------------------------------------------
(* Properties                                                              *)

Called == Len(calls) > 0
Last == calls[Len(calls)]
Returned(c) == c.outcome = "returned"
Ones(n) == Arr([k \in 1..n |-> One])
Zeros(n) == Arr([k \in 1..n |-> Zero])

\* C1: after every call the array the caller passed as x holds the values
\* it held at the call, and what is returned is another array: the next
\* state is built in a new array and the three in-place additions go there.
C1_InputUnmodified ==
  \A k \in DOMAIN calls :
    /\ heap[calls[k].xref] = calls[k].x
    /\ Returned(calls[k]) => calls[k].ref # calls[k].xref

\* a call has returned a state that differs from the one it was given
C1_Witness ==
  /\ Called
  /\ Returned(Last)
  /\ Last.out # Last.x
  /\ heap[Last.ref] = Last.out

\* C2: with s = 0 and dt > 0 a call returns exactly the deterministic Taylor
\* step of line 105, x + dx*dt + dt**2 * 0.5 * dxF @ dx, whatever the draw;
\* for x = [1,1,1,1] with the zero field that is [1,1,1,1].
C2_ZeroNoise ==
  Called /\ Returned(Last) /\ Last.s = Zero /\ FIsPos(Last.dt) =>
    /\ Last.out = TaylorStep(Last.x, frame.dx, frame.dxF, Last.dt)
    /\ (field = "zero" /\ Last.x = Ones(4)) => Last.out = Ones(4)

\* a call with s = 0 and dt > 0 under a non-zero drift, on a draw in which
\* no variate of xi is zero
C2_Witness ==
  /\ Called
  /\ Returned(Last)
  /\ Last.s = Zero
  /\ FIsPos(Last.dt)
  /\ field = "ring"
  /\ Last.out # Last.x
  /\ \A k \in 1..frame.sys_dim : frame.rndm[1][k] # Zero

\* C3 (as claimed): a call with dt <= 0 or s < 0 ends with InvalidArgument
\* and returns nothing.
C3_InvalidArgument ==
  \A k \in DOMAIN calls :
    (~FIsPos(calls[k].dt) \/ FIsNeg(calls[k].s)) =>
      calls[k].outcome = "InvalidArgument" /\ calls[k].ref = 0

\* the vector v turned by r places: entry k moves to entry k + r (mod n)
Rot(v, r) == Arr([k \in 1..Len(v) |-> v[((k - 1 - r) % Len(v)) + 1]])
\* the matrix M with its rows and its columns turned by r places
RotM(M, r) == Rot(Arr([i \in 1..Len(M) |-> Rot(M[i], r)]), r)
\* the draw with each of its five rows turned by r places
RotRows(rndm, r) == Arr([q \in 1..Len(rndm) |-> Rot(rndm[q], r)])
\* what the call returns on the turned inputs
RotResult(r) ==
  Result(Rot(Last.x, r), Rot(frame.dx, r), RotM(frame.dxF, r),
         RotRows(frame.rndm, r), Last.dt, Last.s)
RotLocals(r) == Locals(frame.sys_dim, RotRows(frame.rndm, r), Last.dt)

\* C4 (as claimed): when x, the five noise vectors and the field derivatives
\* are all turned by r places, the call returns the unturned output turned
\* by r places, for every r.
C4_CyclicSymmetry ==
  Called /\ Returned(Last) =>
    \A r \in 0..(frame.sys_dim - 1) : RotResult(r) = Rot(Last.out, r)

MatVecsTurn(r) ==
  /\ MatVec(MScale(FMul(FSquare(Last.dt), Half), RotM(frame.dxF, r)),
            Rot(frame.dx, r))
       = Rot(MatVec(MScale(FMul(FSquare(Last.dt), Half), frame.dxF),
                    frame.dx), r)
  /\ FirstOrderTerm(Last.s, RotM(frame.dxF, r), Rot(frame.loc.J_pdelta, r))
       = Rot(FirstOrderTerm(Last.s, frame.dxF, frame.loc.J_pdelta), r)

\* the state is the one the last call left
JustCalled == Called /\ rng = Last.rng1 /\ cx = Last.xref

\* what the call returns on the turned inputs, given its turned locals
RotCombine(r, rl) ==
  LET m == Combine([heap |-> <<Rot(Last.x, r)>>, x |-> 1], Rot(frame.dx, r),
                   RotM(frame.dxF, r), Rot(frame.rndm[1], r), Last.dt,
                   Last.s, rl)
  IN  m.heap[m.x]

\* C4 (amended): when x, the five noise vectors and the field derivatives are
\* all turned by r places, a, b, J_pdelta, psi_plus, psi_minus, the Euler
\* term and the second-order term are exactly the unturned ones turned by r
\* places, wrap-around coordinates included; the returned state is the
\* unturned one turned by r places whenever the two matrix-vector products,
\* which are summed in another order, round to the turned products, as they
\* do when the Jacobian is zero.
C4_CyclicSymmetryUpToMatVec ==
  JustCalled /\ Returned(Last) =>
    \A r \in 1..(frame.sys_dim - 1) :
      LET rl == RotLocals(r)
          l == frame.loc
      IN  /\ rl.a = Rot(l.a, r)
          /\ rl.b = Rot(l.b, r)
          /\ rl.J_pdelta = Rot(l.J_pdelta, r)
          /\ rl.psi_plus = Rot(l.psi_plus, r)
          /\ rl.psi_minus = Rot(l.psi_minus, r)
          /\ EulerTerm(Last.dt, Last.s, Rot(frame.rndm[1], r))
               = Rot(EulerTerm(Last.dt, Last.s, frame.rndm[1]), r)
          /\ SecondOrderTerm(Last.s, rl.psi_plus, rl.psi_minus)
               = Rot(SecondOrderTerm(Last.s, l.psi_plus, l.psi_minus), r)
          /\ field = "zero" => MatVecsTurn(r)
          /\ MatVecsTurn(r) => RotCombine(r, rl) = Rot(Last.out, r)

\* a call on five coordinates under the non-zero drift with a generic draw,
\* for which some proper turn of the inputs gives the turned output
C4_Witness ==
  /\ Called
  /\ Returned(Last)
  /\ field = "ring"
  /\ frame.sys_dim = 5
  /\ Last.rng0.seed = 1
  /\ Last.s = One
  /\ FIsPos(Last.dt)
  /\ frame.loc.psi_plus # frame.loc.psi_minus
  /\ \E r \in 1..4 : MatVecsTurn(r) /\ RotResult(r) = Rot(Last.out, r)
                       /\ Rot(Last.out, r) # Last.out

\* C5: two calls given the same x, t, dt and s with the generator in the
\* same state end the same way, return the same values and leave the
\* generator in the same state.
SameGen(g, h) == g.seed = h.seed /\ g.pos = h.pos
C5_Deterministic ==
  \A j \in DOMAIN calls : \A k \in DOMAIN calls :
    ( /\ calls[j].x = calls[k].x
      /\ calls[j].t = calls[k].t
      /\ calls[j].dt = calls[k].dt
      /\ calls[j].s = calls[k].s
      /\ SameGen(calls[j].rng0, calls[k].rng0) ) =>
        /\ calls[j].outcome = calls[k].outcome
        /\ calls[j].out = calls[k].out
        /\ SameGen(calls[j].rng1, calls[k].rng1)

\* two calls on the same arguments, the generator seeded anew before the
\* second, that returned a state moved by noise
C5_Witness ==
  /\ Len(calls) = 2
  /\ calls[1].x = calls[2].x
  /\ SameGen(calls[1].rng0, calls[2].rng0)
  /\ calls[1].rng0.epoch # calls[2].rng0.epoch
  /\ calls[1].rng0.seed = 1
  /\ Returned(calls[2])
  /\ calls[2].s = One
  /\ calls[2].out # TaylorStep(calls[2].x, frame.dx, frame.dxF, calls[2].dt)

\* C6: for x = [1,1,1,1] with the zero field, s = 1, dt > 0 and the draw
\* xi = [1,0,0,0], mu = phi = zeta = eta = 0: a, b and J_pdelta's tail are
\* zero, every psi entry is dt^2 * xi[l1] * xi[l2] / 3 and is zero since no
\* pair holds index 0 twice, and the call returns [1 + sqrt(dt), 1, 1, 1].
PsiXiOnly(dt_, xi, pair) ==
  FDiv(FMul(FMul(FSquare(dt_), xi[pair[1] + 1]), xi[pair[2] + 1]), F(3, 1))
C6_UnitDraw ==
  ( /\ Called
    /\ Returned(Last)
    /\ field = "zero"
    /\ Last.x = Ones(4)
    /\ Last.s = One
    /\ FIsPos(Last.dt)
    /\ frame.rndm = <<<<One, Zero, Zero, Zero>>, Zeros(4), Zeros(4),
                      Zeros(4), Zeros(4)>> ) =>
      /\ frame.loc.a = Zeros(4)
      /\ frame.loc.b = Zeros(4)
      /\ \A i \in 1..4 :
           /\ frame.loc.psi_plus[i]
                = PsiXiOnly(Last.dt, frame.rndm[1], frame.loc.plus_args[i])
           /\ frame.loc.psi_minus[i]
                = PsiXiOnly(Last.dt, frame.rndm[1], frame.loc.minus_args[i])
           /\ frame.loc.plus_args[i] # <<0, 0>>
           /\ frame.loc.minus_args[i] # <<0, 0>>
      /\ frame.loc.psi_plus = Zeros(4)
      /\ frame.loc.psi_minus = Zeros(4)
      /\ Last.out = <<FAdd(One, FSqrt(Last.dt)), One, One, One>>

\* that call has been made and has moved the first coordinate
C6_Witness ==
  /\ Called
  /\ Returned(Last)
  /\ field = "zero"
  /\ Last.x = Ones(4)
  /\ Last.s = One
  /\ FIsPos(Last.dt)
  /\ frame.rndm = <<<<One, Zero, Zero, Zero>>, Zeros(4), Zeros(4),
                    Zeros(4), Zeros(4)>>
  /\ Last.out[1] # One

\* row q of a draw of five rows of n variates taken from position pos on
Block(seed, pos, n, q) ==
  Arr([c \in 1..n |-> Variate(seed, pos + (q - 1) * n + (c - 1))])

\* C7: a call takes the 5 * N variates at the generator's next 5 * N
\* positions, each once, as the rows xi, mu, phi, zeta, eta in that order,
\* and leaves the generator behind them; a is made of mu and zeta, b of phi
\* and eta, J_pdelta of xi; no position is used by two calls that follow
\* one seeding.
C7_DrawnOncePerCall ==
  /\ \A k \in DOMAIN calls :
       /\ calls[k].rng1.seed = calls[k].rng0.seed
       /\ calls[k].rng1.pos = calls[k].rng0.pos + 5 * Len(calls[k].x)
  /\ \A j \in DOMAIN calls : \A k \in DOMAIN calls :
       (j < k /\ calls[j].rng0.epoch = calls[k].rng0.epoch) =>
         calls[j].rng1.pos <= calls[k].rng0.pos
  /\ Called =>
       LET B(q) == Block(Last.rng0.seed, Last.rng0.pos, Len(Last.x), q)
       IN  /\ frame.rndm = <<B(1), B(2), B(3), B(4), B(5)>>
           /\ frame.loc.a = AuxA(Last.dt, B(2), B(4))
           /\ frame.loc.b = AuxB(Last.dt, B(3), B(5))
           /\ frame.loc.J_pdelta = J_pdelta(Last.dt, B(1), frame.loc.a)

\* two calls after one seeding, the second on the variates that follow the
\* first call's
C7_Witness ==
  /\ Len(calls) = 2
  /\ calls[1].rng0.epoch = calls[2].rng0.epoch
  /\ calls[1].rng0.seed = 1
  /\ Len(calls[1].x) >= 2
  /\ calls[2].rng0.pos = 5 * Len(calls[1].x)
  /\ frame.rndm[1] # frame.rndm[2]

\* C8: the returned state has the length N of x, and so have the five rows
\* of the draw and a, b, J_pdelta, psi_plus and psi_minus.
C8_DimensionPreserved ==
  Called =>
    /\ Returned(Last) => Len(Last.out) = Len(Last.x)
    /\ frame.sys_dim = Len(Last.x)
    /\ Len(frame.rndm) = 5
    /\ \A q \in 1..5 : Len(frame.rndm[q]) = Len(Last.x)
    /\ Len(frame.loc.a) = Len(Last.x)
    /\ Len(frame.loc.b) = Len(Last.x)
    /\ Len(frame.loc.J_pdelta) = Len(Last.x)
    /\ Len(frame.loc.psi_plus) = Len(Last.x)
    /\ Len(frame.loc.psi_minus) = Len(Last.x)

\* a call on the longest state has returned
C8_Witness ==
  /\ Called
  /\ Returned(Last)
  /\ Len(Last.x) = MaxN
  /\ Last.out # Last.x

\* C9: for N >= 4 the pairs handed to Psi for coordinate i are the left and
\* the right neighbour for psi_plus and the second and the first left
\* neighbour for psi_minus, wrapped into 0..N-1; the two indices of a pair
\* differ from each other and from i.
Wrap(j, n) == IF j < 0 THEN j + n ELSE IF j >= n THEN j - n ELSE j
ProductsCommute(dt_, xi, a, pair) ==
  LET x1 == xi[pair[1] + 1]
      x2 == xi[pair[2] + 1]
      a1 == a[pair[1] + 1]
      a2 == a[pair[2] + 1]
  IN  /\ FMul(FMul(FSquare(dt_), x1), x2) = FMul(FMul(FSquare(dt_), x2), x1)
      /\ FMul(FMul(dt_, a1), a2) = FMul(FMul(dt_, a2), a1)

C10_TwoCoordinates ==
  /\ Called
  /\ Returned(Last)
  /\ frame.sys_dim = 2
  /\ frame.loc.plus_args[1] = <<1, 1>>
  /\ frame.loc.minus_args[1] = <<0, 1>>
  /\ Last.rng0 = [seed |-> 0, pos |-> 0, epoch |-> 0]
  /\ Last.s = One
  /\ FIsPos(Last.dt)
  /\ frame.loc.psi_minus = Zeros(2)
  /\ frame.loc.psi_plus[2] = FDiv(FSquare(Last.dt), F(3, 1))

====
